---- MODULE Spec2Model ----
(***************************************************************************)
(* libbitcoin-blockchain: the fork (validation/fork.hpp, fork.cpp) and the *)
(* organizer (pools/organizer.cpp).                                        *)
(*                                                                         *)
(* A block is identified by its hash, a small natural number.  The store   *)
(* (fast_chain), the block pool and the validator are the organizer's      *)
(* collaborators; their results are inputs of the organize sequence.       *)
(***************************************************************************)
EXTENDS Integers, Sequences, FiniteSets, TLC

\* ------------------------------------------------------------------ bounds
\* Number of organize() invocations (caller threads).
MaxAttempts == 2
\* Number of bits of size_t in the model.
SizeBits == 3

\* ------------------------------------------------------------ block universe
\* null_hash: the hash of no block.
NULL_HASH == 0
\* The blocks callers and the store know: 1 is the genesis block.
Blocks == 1..6
\* header().previous_block_hash() of each block: 2, 3 and 5 compete for
\* height 1, 4 follows 3 and 6 follows 2.
PreviousBlockHash == <<NULL_HASH, 1, 1, 3, 1, 2>>
\* block->difficulty(): the work claimed by the header bits of each block.
BlockDifficulty == <<1, 2, 2, 1, 3, 1>>
\* The main chain at construction: genesis at height 0, block 2 at height 1.
InitialChain == <<1, 2>>
\* The blocks a caller may pass to organize.
Submittable == 2..6

\* header().bits(), header().version() and header().timestamp() of each block.
HeaderBits == <<11, 12, 13, 14, 15, 16>>
HeaderVersion == <<21, 22, 22, 23, 23, 24>>
HeaderTimestamp == <<31, 32, 33, 34, 35, 36>>

\* point::null_index, the index of the null (coinbase) outpoint.
NULL_INDEX == 9
\* output_point::validation_type::not_specified, a value no height takes.
NOT_SPECIFIED == -2

\* chain::output{}: the output that is_valid() rejects.
InvalidOutput == [value |-> 0, valid |-> FALSE]
\* An output with a value and a script.
Out(v) == [value |-> v, valid |-> TRUE]
\* An output_point.
Point(h, i) == [hash |-> h, index |-> i]
\* A transaction: its hash, the previous outputs of its inputs, its outputs.
Tx(h, ins, outs) == [hash |-> h, inputs |-> ins, outputs |-> outs]

\* block->transactions() of each block.  Transaction hash 7 occurs in blocks
\* 1, 3, 4 and 5 with one or two outputs; the outpoint (7, 0) is spent once
\* in blocks 1 and 6 and twice in block 2.
Transactions ==
    <<  <<Tx(7, <<Point(NULL_HASH, NULL_INDEX)>>, <<Out(50)>>),
          Tx(8, <<Point(7, 0)>>, <<Out(20), Out(30)>>)>>,
        <<Tx(10, <<Point(NULL_HASH, NULL_INDEX)>>, <<InvalidOutput>>),
          Tx(9, <<Point(7, 0), Point(7, 0)>>, <<Out(1)>>)>>,
        <<Tx(7, <<Point(8, 0)>>, <<Out(5), Out(6)>>)>>,
        <<Tx(8, <<Point(7, 1)>>, <<Out(9)>>),
          Tx(7, <<Point(NULL_HASH, NULL_INDEX)>>, <<Out(50)>>)>>,
        <<Tx(7, <<Point(NULL_HASH, NULL_INDEX)>>, <<Out(50)>>)>>,
        <<Tx(8, <<Point(7, 0)>>, <<Out(20), Out(30)>>)>>  >>

\* The outpoints a caller may ask the fork about.
Outpoints ==
    {Point(7, 0), Point(7, 1), Point(8, 0), Point(10, 0), Point(NULL_HASH, 0),
     Point(NULL_HASH, NULL_INDEX)}

\* -------------------------------------------------------------- error codes
Success == "success"
ServiceStopped == "service_stopped"
DuplicateBlock == "duplicate_block"
OrphanBlock == "orphan_block"
InsufficientWork == "insufficient_work"
OperationFailed == "operation_failed"
CheckFailed == "check_failed"
AcceptFailed == "accept_failed"
ConnectFailed == "connect_failed"
StoreFailed == "store_failed"

\* ------------------------------------------------------------ size_t
\* The largest size_t.
SIZE_MAX == 2 ^ SizeBits - 1

\* Unsigned arithmetic modulo 2^SizeBits.
Wrap(n) == n % (SIZE_MAX + 1)

\* The outcome of a checked operation that throws.
Overflow == -1

\* safe_add: throws std::overflow_error when the sum does not fit.
safe_add(left, right) ==
    IF left = Overflow \/ right = Overflow THEN Overflow
    ELSE IF left + right > SIZE_MAX THEN Overflow
    ELSE left + right

\* safe_subtract: throws std::underflow_error when left < right.
safe_subtract(left, right) ==
    IF left = Overflow \/ right = Overflow THEN Overflow
    ELSE IF left < right THEN Overflow
    ELSE left - right

\* ------------------------------------------------------------------- fork
\* fork::fork(): no blocks, parent height 0.
fork_new == [height |-> 0, blocks |-> <<>>]

\* fork::set_height
fork_set_height(f, h) == [f EXCEPT !.height = h]

\* fork::empty
fork_empty(f) == f.blocks = <<>>

\* fork::size
fork_size(f) == Len(f.blocks)

\* fork::height
fork_height(f) == f.height

\* fork::blocks
fork_blocks(f) == f.blocks

\* A push_front that inserts at the back of the list.
fork_push_front_at_back(f, b) ==
    IF fork_empty(f) \/ PreviousBlockHash[Head(f.blocks)] = b
      THEN [fork |-> [f EXCEPT !.blocks = @ \o <<b>>], ok |-> TRUE]
      ELSE [fork |-> f, ok |-> FALSE]

\* A push_front that inserts without looking at the linkage.
fork_push_front_unlinked(f, b) ==
    [fork |-> [f EXCEPT !.blocks = <<b>> \o @], ok |-> TRUE]

\* fork::push_front: the new fork and the returned flag.
fork_push_front(f, b) ==
    IF fork_empty(f) \/ PreviousBlockHash[Head(f.blocks)] = b
      THEN [fork |-> [f EXCEPT !.blocks = <<b>> \o @], ok |-> TRUE]
      ELSE [fork |-> f, ok |-> FALSE]

\* fork::top (0 stands for nullptr)
fork_top(f) == IF fork_empty(f) THEN 0 ELSE f.blocks[Len(f.blocks)]

\* fork::top_height: an unchecked size_t addition.
fork_top_height(f) ==
    IF fork_empty(f) THEN 0 ELSE Wrap(f.height + fork_size(f))

\* A hash() that reads the back of the list.
fork_hash_of_back(f) ==
    IF fork_empty(f) THEN NULL_HASH ELSE PreviousBlockHash[f.blocks[Len(f.blocks)]]

\* fork::hash
fork_hash(f) ==
    IF fork_empty(f) THEN NULL_HASH ELSE PreviousBlockHash[Head(f.blocks)]

RECURSIVE SumDifficulty(_)
\* The accumulation loop of fork::difficulty over a block list.
SumDifficulty(bs) ==
    IF bs = <<>> THEN 0 ELSE BlockDifficulty[Head(bs)] + SumDifficulty(Tail(bs))

\* A difficulty() that reads the top block only.
fork_difficulty_of_top(f) ==
    IF f.blocks = <<>> THEN 0 ELSE BlockDifficulty[f.blocks[Len(f.blocks)]]

\* fork::difficulty
fork_difficulty(f) == SumDifficulty(f.blocks)

\* fork::index_of
fork_index_of(f, height) ==
    safe_subtract(safe_subtract(height, f.height), 1)

\* fork::height_at
fork_height_at(f, index) == safe_add(safe_add(f.height, index), 1)

\* fork::block_at (0 stands for nullptr)
fork_block_at(f, index) ==
    IF index < fork_size(f) THEN f.blocks[index + 1] ELSE 0

RECURSIVE count_points(_, _)
\* std::count_if(ins.begin(), ins.end(), points) of populate_spent.
count_points(ins, outpoint) ==
    IF ins = <<>> THEN 0
    ELSE (IF Head(ins) = outpoint THEN 1 ELSE 0) + count_points(Tail(ins), outpoint)

RECURSIVE accumulate_inner(_, _, _)
\* std::accumulate(txs.begin(), txs.end(), sum, inner) of populate_spent.
accumulate_inner(txs, sum, outpoint) ==
    IF txs = <<>> THEN sum
    ELSE accumulate_inner(Tail(txs), sum + count_points(Head(txs).inputs, outpoint),
                          outpoint)

\* The lambda outer of populate_spent: the inner accumulation starts at total.
spent_outer(total, block, outpoint) ==
    total + accumulate_inner(Transactions[block], total, outpoint)

RECURSIVE accumulate_outer(_, _, _)
\* std::accumulate(blocks_->begin(), blocks_->end(), total, outer).
accumulate_outer(bs, total, outpoint) ==
    IF bs = <<>> THEN total
    ELSE accumulate_outer(Tail(bs), spent_outer(total, Head(bs), outpoint), outpoint)

\* fork::populate_spent: the validation fields it writes, and the count.
fork_populate_spent(f, outpoint) ==
    LET spent == accumulate_outer(f.blocks, 0, outpoint)
    IN  [spent |-> spent > 1, confirmed |-> spent > 1, count |-> spent]

RECURSIVE find_transaction(_, _, _)
\* The transaction scan of get_output: the first position (from 0) of a
\* transaction with the outpoint's hash and enough outputs, -1 when none.
find_transaction(txs, outpoint, position) ==
    IF position >= Len(txs) THEN -1
    ELSE IF /\ outpoint.hash = txs[position + 1].hash
            /\ outpoint.index < Len(txs[position + 1].outputs)
           THEN position
    ELSE find_transaction(txs, outpoint, position + 1)

RECURSIVE get_output(_, _, _)
\* The lambda get_output of populate_prevout: blocks from the highest index
\* down; thrown when height_at overflows on the block found.
get_output(f, outpoint, forward) ==
    IF forward >= fork_size(f)
      THEN [height |-> 0, position |-> 0, out |-> InvalidOutput, thrown |-> FALSE]
      ELSE LET index == fork_size(f) - forward - 1
               txs == Transactions[fork_block_at(f, index)]
               position == find_transaction(txs, outpoint, 0)
           IN  IF position = -1
                 THEN get_output(f, outpoint, forward + 1)
                 ELSE [height |-> fork_height_at(f, index),
                       position |-> position,
                       out |-> txs[position + 1].outputs[outpoint.index + 1],
                       thrown |-> fork_height_at(f, index) = Overflow]

\* point::is_null
is_null(outpoint) == outpoint.index = NULL_INDEX /\ outpoint.hash = NULL_HASH

\* A populate_prevout that sets the height for every transaction found.
fork_populate_prevout_any_position(f, outpoint) ==
    LET finder == get_output(f, outpoint, 0)
        unset == [cache |-> InvalidOutput, height |-> NOT_SPECIFIED, thrown |-> FALSE]
    IN  IF is_null(outpoint) THEN unset
        ELSE IF finder.thrown THEN [unset EXCEPT !.thrown = TRUE]
        ELSE IF ~finder.out.valid THEN unset
        ELSE [cache |-> finder.out, height |-> finder.height, thrown |-> FALSE]

\* fork::populate_prevout: the validation fields it writes; thrown when
\* height_at raised out of get_output.
fork_populate_prevout(f, outpoint) ==
    LET finder == get_output(f, outpoint, 0)
        unset == [cache |-> InvalidOutput, height |-> NOT_SPECIFIED, thrown |-> FALSE]
    IN  IF is_null(outpoint) THEN unset
        ELSE IF finder.thrown THEN [unset EXCEPT !.thrown = TRUE]
        ELSE IF ~finder.out.valid THEN unset
        ELSE [cache |-> finder.out,
              height |-> IF finder.position = 0 THEN finder.height ELSE NOT_SPECIFIED,
              thrown |-> FALSE]

\* A guard that lets the fork point's own height through.
below_fork_strict(f, height) == height < f.height

\* The guard of the four getters: the height is not above the fork point.
below_fork(f, height) == height <= f.height

\* The body the four getters share: the returned flag, the block found, and
\* the heights index_of was evaluated with; thrown when index_of raised.
fork_get(f, height) ==
    IF below_fork(f, height)
      THEN [ok |-> FALSE, block |-> 0, indexed |-> <<>>, thrown |-> FALSE]
      ELSE LET index == fork_index_of(f, height)
               block == IF index = Overflow THEN 0 ELSE fork_block_at(f, index)
           IN  [ok |-> block # 0, block |-> block, indexed |-> <<height>>,
                thrown |-> index = Overflow]

\* What a getter hands back: the flag and the output argument after the call.
Got(g, field, out) ==
    [ok |-> g.ok, out |-> IF g.ok THEN field[g.block] ELSE out,
     indexed |-> g.indexed, thrown |-> g.thrown]

\* fork::get_bits
fork_get_bits(f, out_bits, height) == Got(fork_get(f, height), HeaderBits, out_bits)

\* fork::get_version
fork_get_version(f, out_version, height) ==
    Got(fork_get(f, height), HeaderVersion, out_version)

\* fork::get_timestamp
fork_get_timestamp(f, out_timestamp, height) ==
    Got(fork_get(f, height), HeaderTimestamp, out_timestamp)

\* fork::get_block_hash: block->hash() is the block's own hash.
fork_get_block_hash(f, out_hash, height) ==
    Got(fork_get(f, height), [b \in Blocks |-> b], out_hash)

\* ------------------------------------------------------- store (fast_chain)
\* The chain is the sequence of block hashes by height: chain[i] is the block
\* at height i - 1.

\* fast_chain::get_block_exists
get_block_exists(c, h) == \E i \in 1..Len(c) : c[i] = h

\* fast_chain::get_height: found flag and the height of the block.
get_height(c, h) ==
    IF get_block_exists(c, h)
      THEN [ok |-> TRUE, height |-> (CHOOSE i \in 1..Len(c) : c[i] = h) - 1]
      ELSE [ok |-> FALSE, height |-> 0]

RECURSIVE SegmentWork(_, _, _, _)
\* Work of the main-chain blocks at heights >= h, accumulated from total;
\* the query stops as soon as the total exceeds maximum.
SegmentWork(c, maximum, h, total) ==
    IF h + 1 > Len(c) \/ total > maximum
      THEN total
      ELSE SegmentWork(c, maximum, h + 1, total + BlockDifficulty[c[h + 1]])

\* fast_chain::get_fork_difficulty, when the query succeeds.
get_fork_difficulty(c, maximum, first_height) ==
    SegmentWork(c, maximum, first_height, 0)

\* fast_chain::reorganize, when the write succeeds: the main-chain blocks
\* above the fork point are popped into outgoing (old top last) and the
\* blocks of the fork are pushed.
reorganize(c, f) ==
    [chain |-> SubSeq(c, 1, f.height + 1) \o f.blocks,
     outgoing |-> SubSeq(c, f.height + 2, Len(c))]

\* ------------------------------------------------------------- block pool
\* The height a pool candidate carries (0: not known).
CandidateHeight == <<0, 1, 1, 2, 1, 2>>

\* The set of elements of a block list.
ListSet(bs) == {bs[i] : i \in 1..Len(bs)}

RECURSIVE PathFrom(_, _, _)
\* The ancestor walk of block_pool::get_path.
PathFrom(p, f, b) ==
    LET g == fork_push_front(f, b).fork
        parent == PreviousBlockHash[b]
    IN  IF parent \in p THEN PathFrom(p, g, parent) ELSE g

\* block_pool::get_path: empty when the block is already a candidate.
get_path(p, b) == IF b \in p THEN fork_new ELSE PathFrom(p, fork_new, b)

\* block_pool::add(block)
pool_add(p, b) == p \cup {b}

\* block_pool::add(blocks)
pool_add_list(p, bs) == p \cup ListSet(bs)

\* block_pool::remove(blocks)
pool_remove(p, bs) == p \ ListSet(bs)

\* block_pool::prune(top_height): discards the candidates known to be below.
pool_prune(p, h) ==
    {b \in p : ~(CandidateHeight[b] # 0 /\ CandidateHeight[b] < h)}

\* ------------------------------------------------------------------ state
VARIABLES
    stopped,      \* organizer::stopped_
    flush,        \* organizer::flush_reorganizations_
    mutex,        \* organizer::mutex_: exclusive flag and shared-holder count
    chain,        \* the store's main chain
    writes,       \* the store's flush lock and the calls made on it
    pool,         \* the block pool's candidates
    subscriber,   \* the reorganize subscriber: stopped flag
    invoked,      \* the latest subscriber_->invoke issued, <<>> before any
    ctl,          \* the thread that calls start() and stop()
    att,          \* the organize invocations, one per caller
    fk,           \* a fork object driven directly through its interface
    calls         \* the organize calls not yet finished, in the order made

\* The organizer and its collaborators.
organizer_vars ==
    <<stopped, flush, mutex, chain, writes, pool, subscriber, invoked, ctl, att,
      calls>>

vars ==
    <<stopped, flush, mutex, chain, writes, pool, subscriber, invoked, ctl, att,
      fk, calls>>

Attempts == 1..MaxAttempts

\* One call made during an organize sequence, as the attempt's trace keeps it.
Ev(op, code, n, blocks, out) ==
    [op |-> op, code |-> code, n |-> n, blocks |-> blocks, out |-> out]

\* Append an event to an attempt's trace.
Log(r, e) == [r EXCEPT !.trace = Append(@, e)]

\* The ops and codes of a trace.
Ops(r) == {r.trace[i].op : i \in 1..Len(r.trace)}

\* The events of a trace with the given op.
EventsOf(r, op) == {i \in 1..Len(r.trace) : r.trace[i].op = op}

\* An organize invocation before the call is made.
NewAttempt ==
    [pc |-> "new", block |-> 0, fork |-> fork_new, ec |-> Success,
     outgoing |-> <<>>, difficulty |-> 0, threshold |-> 0, trace |-> <<>>,
     replies |-> <<>>, lockCopies |-> {}, heldAtReply |-> FALSE,
     chain0 |-> <<>>, pool0 |-> {}, stopped0 |-> FALSE, started0 |-> FALSE,
     writes0 |-> FALSE, lockedBefore |-> {}, sawStopped |-> {}]

\* A fork object as fork::fork() leaves it, before any call on it.
ForkIdle ==
    [op |-> "new", fork |-> fork_new, pre |-> fork_new, arg |-> [none |-> TRUE],
     ret |-> [none |-> TRUE]]

\* organizer::organizer and the construction of its collaborators.
Init ==
    /\ stopped = TRUE
    /\ flush \in BOOLEAN
    /\ mutex = [exclusive |-> FALSE, shared |-> 0]
    /\ chain = InitialChain
    /\ writes = [open |-> FALSE]
    /\ pool = {}
    /\ subscriber = [stopped |-> TRUE]
    /\ invoked = <<>>
    /\ ctl = [pc |-> "idle", state |-> "constructed", last |-> "none",
              wrote |-> FALSE]
    /\ att = [a \in Attempts |-> NewAttempt]
    /\ fk = ForkIdle
    /\ calls = <<>>

\* An exclusive lock that does not wait for another exclusive holder.
scope_lock_free_unguarded(m) == m.shared = 0

\* scope_lock::scope_lock: the exclusive lock can be taken.
scope_lock_free(m) == ~m.exclusive /\ m.shared = 0

\* A shared lock that does not wait for the exclusive holder.
shared_lock_free_unguarded(m) == TRUE

\* shared_lock lock(mutex_): the shared lock can be taken.
shared_lock_free(m) == ~m.exclusive

\* The caller's result handler is invoked with ec.
Handler(r, ec) ==
    [r EXCEPT !.replies = Append(@, ec),
              !.heldAtReply = (r.lockCopies # {}),
              !.trace = Append(@, Ev("reply", ec, 0, <<>>, <<>>))]

\* organizer::complete: the by-value lock parameter is reset, then the
\* handler runs; the copy bound into locked_handler is another object.
complete(r, ec) ==
    LET called == [r EXCEPT !.lockCopies = @ \cup {"param"}]
        reset == [called EXCEPT !.lockCopies = @ \ {"param"}]
    IN  Handler(reset, ec)

\* The guard of set_fork_height: safe_add(height, fork->size()), whose sum
\* is dropped and whose exception is not.
chain_size_guard(height, f) == safe_add(height, fork_size(f))

\* A set_fork_height that stores the guarded sum instead of the height.
set_fork_height_stores_sum(c, f) ==
    LET found == get_height(c, fork_hash(f))
    IN  IF ~found.ok
          THEN [ok |-> FALSE, fork |-> f, thrown |-> FALSE]
        ELSE IF chain_size_guard(found.height, f) = Overflow
          THEN [ok |-> FALSE, fork |-> f, thrown |-> TRUE]
        ELSE [ok |-> TRUE, thrown |-> FALSE,
              fork |-> fork_set_height(f, found.height + fork_size(f))]

\* organizer::set_fork_height: the found flag, the fork with its height set,
\* and whether the guard threw.
set_fork_height(c, f) ==
    LET found == get_height(c, fork_hash(f))
    IN  IF ~found.ok
          THEN [ok |-> FALSE, fork |-> f, thrown |-> FALSE]
        ELSE IF chain_size_guard(found.height, f) = Overflow
          THEN [ok |-> FALSE, fork |-> f, thrown |-> TRUE]
        ELSE [ok |-> TRUE, thrown |-> FALSE,
              fork |-> fork_set_height(f, found.height)]

\* handle_connect: const auto first_height = fork->height() + 1u, an
\* unchecked size_t addition.
first_height_of(f) == Wrap(fork_height(f) + 1)

\* A work comparison that lets equal work through.
work_insufficient_strict(difficulty, threshold) == difficulty < threshold

\* The work comparison of organizer::handle_connect.
work_insufficient(difficulty, threshold) == difficulty <= threshold

\* An entry that never looks at the flag.
organize_stopped_ignored(s) == FALSE

\* The stopped test at the entry of organize.
organize_stopped(s) == s

\* A duplicate test that looks at the pool's path only.
organize_duplicate_path_only(f, exists) == fork_empty(f)

\* The duplicate test of organize: an empty path, or the hash is in the store.
organize_duplicate(f, exists) == fork_empty(f) \/ exists

\* --------------------------------------------------------------- organize
\* A caller invokes organize(block, handler).
Call(a, b) ==
    /\ att[a].pc = "new"
    /\ att' = [att EXCEPT ![a].pc = "entry", ![a].block = b,
           ![a].lockedBefore =
               {x \in Attempts : att[x].pc \notin {"new", "entry", "done"}}]
    /\ calls' = Append(calls, a)
    /\ UNCHANGED <<fk, stopped, flush, mutex, chain, writes, pool, subscriber, invoked, ctl>>

\* organize: const auto lock = std::make_shared<scope_lock>(mutex_).
Acquire(a) ==
    /\ att[a].pc = "entry"
    /\ scope_lock_free(mutex)
    /\ mutex' = [mutex EXCEPT !.exclusive = TRUE]
    /\ att' = [att EXCEPT ![a].pc = "locked", ![a].lockCopies = {"local"},
                          ![a].chain0 = chain, ![a].pool0 = pool]
    /\ UNCHANGED <<fk, calls, stopped, flush, chain, writes, pool, subscriber, invoked, ctl>>

\* organize after the lock: the stopped test, check, get_path, the duplicate
\* test, set_fork_height and the start of accept.  cec is the validator's
\* answer to check(block).  An exception of set_fork_height's guard leaves
\* organize with no handler call and the stack unwinds.
OrganizeBody(a, cec) ==
    LET r == [att[a] EXCEPT !.stopped0 = stopped]
        checked == Log(r, Ev("check", cec, r.block, <<>>, <<>>))
        f == get_path(pool, r.block)
        bound == [Log(checked, Ev("get_path", Success, r.block, f.blocks, <<>>))
                    EXCEPT !.lockCopies = @ \cup {"bound"}, !.fork = f]
        exists == get_block_exists(chain, r.block)
        queried == IF fork_empty(f) THEN bound
                   ELSE Log(bound, Ev("get_block_exists",
                                      IF exists THEN Success ELSE "not_found",
                                      r.block, <<>>, <<>>))
        anchor == set_fork_height(chain, f)
        anchored == [Log(queried, Ev("get_height",
                                     IF anchor.ok THEN Success ELSE "not_found",
                                     anchor.fork.height, <<fork_hash(f)>>, <<>>))
                       EXCEPT !.fork = anchor.fork]
        accepting == Log(anchored, Ev("accept", Success, 0, anchor.fork.blocks, <<>>))
    IN  /\ att[a].pc = "locked"
        /\ att' = [att EXCEPT ![a] =
             IF organize_stopped(r.stopped0)
               THEN [Handler(r, ServiceStopped) EXCEPT !.pc = "replied"]
             ELSE IF cec # Success
               THEN [Handler(checked, cec) EXCEPT !.pc = "replied"]
             ELSE IF organize_duplicate(f, exists)
               THEN [complete(queried, DuplicateBlock) EXCEPT !.pc = "replied"]
             ELSE IF anchor.thrown
               THEN [queried EXCEPT !.pc = "replied"]
             ELSE IF ~anchor.ok
               THEN [complete(anchored, OrphanBlock) EXCEPT !.pc = "replied"]
             ELSE [accepting EXCEPT !.pc = "accepting",
                                    !.lockCopies = @ \ {"local"}]]
        /\ UNCHANGED <<fk, calls, stopped, flush, mutex, chain, writes, pool, subscriber, invoked, ctl>>

\* The validator completes accept(fork) with ec: accept_handler posts
\* handle_accept to the dispatch pool.
ValidatorAccept(a, ec) ==
    /\ att[a].pc = "accepting"
    /\ att' = [att EXCEPT ![a].pc = "accepted", ![a].ec = ec]
    /\ UNCHANGED <<fk, calls, stopped, flush, mutex, chain, writes, pool, subscriber, invoked, ctl>>

\* The continuation named k has run on the attempt r while stopped() was s.
SawStopped(r, k, s) ==
    [r EXCEPT !.sawStopped = IF s THEN @ \cup {k} ELSE @]

\* A handle_accept that looks at accept's code before the flag.
handle_accept_error_first(r, s) ==
    LET seen == Log(r, Ev("handle_accept", r.ec, 0, <<>>, <<>>))
    IN  IF r.ec # Success
          THEN [complete(seen, r.ec) EXCEPT !.pc = "replied"]
        ELSE IF s
          THEN [complete(seen, ServiceStopped) EXCEPT !.pc = "replied"]
        ELSE [Log(seen, Ev("connect", Success, 0, r.fork.blocks, <<>>))
                EXCEPT !.pc = "connecting"]

\* A handle_accept that goes on to connect whatever accept answered.
handle_accept_unchecked(r, s) ==
    LET seen == Log(r, Ev("handle_accept", r.ec, 0, <<>>, <<>>))
    IN  IF s
          THEN [complete(seen, ServiceStopped) EXCEPT !.pc = "replied"]
          ELSE [Log(seen, Ev("connect", Success, 0, r.fork.blocks, <<>>))
                  EXCEPT !.pc = "connecting"]

\* organizer::handle_accept on the attempt r, s being stopped().
handle_accept(r, s) ==
    LET seen == Log(r, Ev("handle_accept", r.ec, 0, <<>>, <<>>))
    IN  IF s
          THEN [complete(seen, ServiceStopped) EXCEPT !.pc = "replied"]
        ELSE IF r.ec # Success
          THEN [complete(seen, r.ec) EXCEPT !.pc = "replied"]
        ELSE [Log(seen, Ev("connect", Success, 0, r.fork.blocks, <<>>))
                EXCEPT !.pc = "connecting"]

\* handle_accept runs on a dispatch thread.
HandleAccept(a) ==
    /\ att[a].pc = "accepted"
    /\ att' = [att EXCEPT ![a] = SawStopped(handle_accept(att[a], stopped),
                                             "handle_accept", stopped)]
    /\ UNCHANGED <<fk, calls, stopped, flush, mutex, chain, writes, pool, subscriber, invoked, ctl>>

\* The validator completes connect(fork) with ec: connect_handler posts
\* handle_connect to the dispatch pool.
ValidatorConnect(a, ec) ==
    /\ att[a].pc = "connecting"
    /\ att' = [att EXCEPT ![a].pc = "connected", ![a].ec = ec]
    /\ UNCHANGED <<fk, calls, stopped, flush, mutex, chain, writes, pool, subscriber, invoked, ctl>>

\* One subscriber_->invoke(ec, height, blocks, out); by is the attempt that
\* notified, 0 for stop().
Invocation(ec, height, blocks, out, by) ==
    [ec |-> ec, height |-> height, blocks |-> blocks, out |-> out, by |-> by]

\* A notification that carries a code other than success.
notify_reorganize_miscoded(height, blocks, out, by) ==
    Invocation(InsufficientWork, height, blocks, out, by)

\* organizer::notify_reorganize
notify_reorganize(height, blocks, out, by) ==
    Invocation(Success, height, blocks, out, by)

\* A handle_connect that replies insufficient_work and, the return missing,
\* goes on to reorganize.
handle_connect_no_return(r, s, c, p, fl, st, wr, qok) ==
    LET seen == Log(r, Ev("handle_connect", r.ec, 0, <<>>, <<>>))
        first_height == first_height_of(r.fork)
        maximum == fork_difficulty(r.fork)
        threshold == get_fork_difficulty(c, maximum, first_height)
        queried == [Log(seen, Ev("get_fork_difficulty",
                                 IF qok THEN Success ELSE OperationFailed,
                                 first_height, <<>>, <<>>))
                      EXCEPT !.difficulty = maximum,
                             !.threshold = IF qok THEN threshold ELSE 0]
        top == fork_top(r.fork)
        retained == Log(queried, Ev("pool_add", Success, top, <<>>, <<>>))
        replacing(q) == [Log(q, Ev("reorganize",
                                   IF fl THEN "flush" ELSE "no_flush",
                                   fork_top_height(r.fork), r.fork.blocks, <<>>))
                           EXCEPT !.started0 = st, !.writes0 = wr,
                                  !.pc = "reorganizing"]
    IN  IF s
          THEN [att |-> [complete(seen, ServiceStopped) EXCEPT !.pc = "replied"],
                pool |-> p]
        ELSE IF r.ec # Success
          THEN [att |-> [complete(seen, r.ec) EXCEPT !.pc = "replied"],
                pool |-> p]
        ELSE IF ~qok
          THEN [att |-> [complete(queried, OperationFailed) EXCEPT !.pc = "replied"],
                pool |-> p]
        ELSE IF work_insufficient(fork_difficulty(r.fork), threshold)
          THEN [att |-> replacing(complete(retained, InsufficientWork)),
                pool |-> pool_add(p, top)]
        ELSE [att |-> replacing(queried), pool |-> p]

\* organizer::handle_connect on the attempt r: s is stopped(), c the chain,
\* p the pool, fl flush_reorganizations_, st and wr whether start() has
\* returned true and the flush lock is held, qok the store's answer to
\* get_fork_difficulty.  The new attempt and the new pool.
handle_connect(r, s, c, p, fl, st, wr, qok) ==
    LET seen == Log(r, Ev("handle_connect", r.ec, 0, <<>>, <<>>))
        first_height == first_height_of(r.fork)
        maximum == fork_difficulty(r.fork)
        threshold == get_fork_difficulty(c, maximum, first_height)
        queried == [Log(seen, Ev("get_fork_difficulty",
                                 IF qok THEN Success ELSE OperationFailed,
                                 first_height, <<>>, <<>>))
                      EXCEPT !.difficulty = maximum,
                             !.threshold = IF qok THEN threshold ELSE 0]
        top == fork_top(r.fork)
        retained == Log(queried, Ev("pool_add", Success, top, <<>>, <<>>))
        replacing(q) == [Log(q, Ev("reorganize",
                                   IF fl THEN "flush" ELSE "no_flush",
                                   fork_top_height(r.fork), r.fork.blocks, <<>>))
                           EXCEPT !.started0 = st, !.writes0 = wr,
                                  !.pc = "reorganizing"]
    IN  IF s
          THEN [att |-> [complete(seen, ServiceStopped) EXCEPT !.pc = "replied"],
                pool |-> p]
        ELSE IF r.ec # Success
          THEN [att |-> [complete(seen, r.ec) EXCEPT !.pc = "replied"],
                pool |-> p]
        ELSE IF ~qok
          THEN [att |-> [complete(queried, OperationFailed) EXCEPT !.pc = "replied"],
                pool |-> p]
        ELSE IF work_insufficient(fork_difficulty(r.fork), threshold)
          THEN [att |-> [complete(retained, InsufficientWork) EXCEPT !.pc = "replied"],
                pool |-> pool_add(p, top)]
        ELSE [att |-> replacing(queried), pool |-> p]

\* handle_connect runs on a dispatch thread.
HandleConnect(a, qok) ==
    LET done == handle_connect(att[a], stopped, chain, pool, flush,
                               ctl.state = "started", writes.open, qok)
    IN  /\ att[a].pc = "connected"
        /\ att' = [att EXCEPT ![a] = SawStopped(done.att, "handle_connect", stopped)]
        /\ pool' = done.pool
        /\ UNCHANGED <<fk, calls, stopped, flush, mutex, chain, writes, subscriber, invoked, ctl>>

\* The store carries out reorganize(fork, out_blocks, flush, ...) and is about
\* to call its completion handler with ec.  A failed write may have popped
\* the competing blocks already (partial).
StoreReorganize(a, ec, partial) ==
    LET r == att[a]
        done == reorganize(chain, r.fork)
    IN  /\ r.pc = "reorganizing"
        /\ ec = Success => ~partial
        /\ chain' = IF ec = Success THEN done.chain
                    ELSE IF partial THEN SubSeq(chain, 1, r.fork.height + 1)
                    ELSE chain
        /\ att' = [att EXCEPT ![a].pc = "reorganized", ![a].ec = ec,
                              ![a].outgoing = IF ec = Success \/ partial
                                                THEN done.outgoing ELSE <<>>]
        /\ UNCHANGED <<fk, calls, stopped, flush, mutex, writes, pool, subscriber, invoked, ctl>>

\* A handle_reorganized that notifies before it updates the block pool.
handle_reorganized_notify_first(r, p, inv, a) ==
    LET f == r.fork
        seen == Log(r, Ev("handle_reorganized", r.ec, 0, <<>>, r.outgoing))
        removed(q) == Log(q, Ev("pool_remove", Success, 0, fork_blocks(f), <<>>))
        pruned(q) == Log(q, Ev("pool_prune", Success, fork_top_height(f), <<>>, <<>>))
        added(q) == Log(q, Ev("pool_add_list", Success, 0, <<>>, r.outgoing))
        notified(q) == Log(q, Ev("notify", Success, fork_height(f),
                                 fork_blocks(f), r.outgoing))
        updated == pool_add_list(
                       pool_prune(pool_remove(p, fork_blocks(f)),
                                  fork_top_height(f)),
                       r.outgoing)
        notice == notify_reorganize(fork_height(f), fork_blocks(f), r.outgoing, a)
    IN  IF r.ec # Success
          THEN [att |-> [complete(seen, r.ec) EXCEPT !.pc = "replied"],
                pool |-> p, invoked |-> inv]
          ELSE [att |-> [complete(added(pruned(removed(notified(seen)))), Success)
                           EXCEPT !.pc = "replied"],
                pool |-> updated, invoked |-> notice]

\* A handle_reorganized without the test of the store's code.
handle_reorganized_unchecked(r, p, inv, a) ==
    LET f == r.fork
        seen == Log(r, Ev("handle_reorganized", r.ec, 0, <<>>, r.outgoing))
        removed(q) == Log(q, Ev("pool_remove", Success, 0, fork_blocks(f), <<>>))
        pruned(q) == Log(q, Ev("pool_prune", Success, fork_top_height(f), <<>>, <<>>))
        added(q) == Log(q, Ev("pool_add_list", Success, 0, <<>>, r.outgoing))
        notified(q) == Log(q, Ev("notify", Success, fork_height(f),
                                 fork_blocks(f), r.outgoing))
        updated == pool_add_list(
                       pool_prune(pool_remove(p, fork_blocks(f)),
                                  fork_top_height(f)),
                       r.outgoing)
        notice == notify_reorganize(fork_height(f), fork_blocks(f), r.outgoing, a)
    IN  [att |-> [complete(notified(added(pruned(removed(seen)))), r.ec)
                     EXCEPT !.pc = "replied"],
         pool |-> updated, invoked |-> notice]

\* organizer::handle_reorganized on the attempt r of caller a: p is the pool,
\* inv the latest subscriber invocation.  The new attempt, pool and latest
\* invocation.
handle_reorganized(r, p, inv, a) ==
    LET f == r.fork
        seen == Log(r, Ev("handle_reorganized", r.ec, 0, <<>>, r.outgoing))
        removed(q) == Log(q, Ev("pool_remove", Success, 0, fork_blocks(f), <<>>))
        pruned(q) == Log(q, Ev("pool_prune", Success, fork_top_height(f), <<>>, <<>>))
        added(q) == Log(q, Ev("pool_add_list", Success, 0, <<>>, r.outgoing))
        notified(q) == Log(q, Ev("notify", Success, fork_height(f),
                                 fork_blocks(f), r.outgoing))
        updated == pool_add_list(
                       pool_prune(pool_remove(p, fork_blocks(f)),
                                  fork_top_height(f)),
                       r.outgoing)
        notice == notify_reorganize(fork_height(f), fork_blocks(f), r.outgoing, a)
    IN  IF r.ec # Success
          THEN [att |-> [complete(seen, r.ec) EXCEPT !.pc = "replied"],
                pool |-> p, invoked |-> inv]
          ELSE [att |-> [complete(notified(added(pruned(removed(seen)))), Success)
                           EXCEPT !.pc = "replied"],
                pool |-> updated, invoked |-> notice]

\* The store calls its completion handler, handle_reorganized.
HandleReorganized(a) ==
    LET done == handle_reorganized(att[a], pool, invoked, a)
    IN  /\ att[a].pc = "reorganized"
        /\ att' = [att EXCEPT ![a] = SawStopped(done.att, "handle_reorganized", stopped)]
        /\ pool' = done.pool
        /\ invoked' = done.invoked
        /\ UNCHANGED <<fk, calls, stopped, flush, mutex, chain, writes, subscriber, ctl>>

\* The handler has returned and the call stack unwinds: the last copies of
\* the scope_lock pointer (the local of organize, the one bound into the
\* continuation) are destroyed and ~scope_lock unlocks the mutex.
Unwind(a) ==
    /\ att[a].pc = "replied"
    /\ att' = [x \in Attempts |->
                 IF x = a THEN [NewAttempt EXCEPT !.pc = "done"]
                 ELSE [att[x] EXCEPT !.lockedBefore = @ \ {a}]]
    /\ mutex' = [mutex EXCEPT !.exclusive = FALSE]
    /\ calls' = SelectSeq(calls, LAMBDA x : x # a)
    /\ UNCHANGED <<fk, stopped, flush, chain, writes, pool, subscriber, invoked, ctl>>

\* ------------------------------------------------------------ start / stop
\* organizer::start, up to subscriber_->start().
StartBegin ==
    /\ ctl.pc = "idle"
    /\ stopped' = FALSE
    /\ subscriber' = [subscriber EXCEPT !.stopped = FALSE]
    /\ ctl' = [ctl EXCEPT !.pc = "start_writes"]
    /\ UNCHANGED <<fk, calls, flush, mutex, chain, writes, pool, invoked, att>>

\* A start with the flush test inverted.
start_begins_writes_inverted(fl) == fl

\* The flush-lock policy of start: begin_writes is called unless flushing on
\* each reorganization.
start_begins_writes(fl) == ~fl

\* organizer::start: return flush_reorganizations_ || begin_writes().
\* ok is the store's answer to begin_writes.
StartReturn(ok) ==
    LET called == start_begins_writes(flush)
        result == ~called \/ ok
    IN  /\ ctl.pc = "start_writes"
        /\ writes' = IF called
                       THEN [writes EXCEPT !.open = IF ok THEN TRUE ELSE @]
                       ELSE writes
        /\ ctl' = [ctl EXCEPT !.pc = "idle", !.last = "start", !.wrote = called,
                              !.state = IF result THEN "started" ELSE "start_failed"]
        /\ UNCHANGED <<fk, calls, stopped, flush, mutex, chain, pool, subscriber, invoked, att>>

\* organizer::stop, up to the service_stopped invocation.  validator_.stop()
\* acts on the validator alone, whose answers are inputs here.
StopBegin ==
    /\ ctl.pc = "idle"
    /\ subscriber' = [subscriber EXCEPT !.stopped = TRUE]
    /\ invoked' = Invocation(ServiceStopped, 0, <<>>, <<>>, 0)
    /\ ctl' = [ctl EXCEPT !.pc = "stop_wait"]
    /\ UNCHANGED <<fk, calls, stopped, flush, mutex, chain, writes, pool, att>>

\* organizer::stop: shared_lock lock(mutex_).
StopLock ==
    /\ ctl.pc = "stop_wait"
    /\ shared_lock_free(mutex)
    /\ mutex' = [mutex EXCEPT !.shared = @ + 1]
    /\ ctl' = [ctl EXCEPT !.pc = "stop_locked"]
    /\ UNCHANGED <<fk, calls, stopped, flush, chain, writes, pool, subscriber, invoked, att>>

\* organizer::stop: stopped_ = true.
StopSetStopped ==
    /\ ctl.pc = "stop_locked"
    /\ stopped' = TRUE
    /\ ctl' = [ctl EXCEPT !.pc = "stop_writes"]
    /\ UNCHANGED <<fk, calls, flush, mutex, chain, writes, pool, subscriber, invoked, att>>

\* The flush-lock policy of stop: end_writes is called unless flushing on
\* each reorganization.
stop_ends_writes(fl) == ~fl

\* organizer::stop: return flush_reorganizations_ || end_writes(), and the
\* shared lock is released.  ok is the store's answer to end_writes.
StopReturn(ok) ==
    LET called == stop_ends_writes(flush)
    IN  /\ ctl.pc = "stop_writes"
        /\ writes' = IF called
                       THEN [writes EXCEPT !.open = IF ok THEN FALSE ELSE @]
                       ELSE writes
        /\ mutex' = [mutex EXCEPT !.shared = @ - 1]
        /\ ctl' = [ctl EXCEPT !.pc = "idle", !.last = "stop", !.wrote = called,
                              !.state = "stopped"]
        /\ UNCHANGED <<fk, calls, stopped, flush, chain, pool, subscriber, invoked, att>>

\* ------------------------------------------------------- the fork alone
\* The record of a call on the fork object: the operation, its argument, the
\* fork before and after, and what the call handed back.
Called(op, arg, after, ret) ==
    [op |-> op, fork |-> after, pre |-> fk.fork, arg |-> arg, ret |-> ret]

\* fork.push_front(b)
ForkPushFront(b) ==
    /\ fk' = Called("push_front", [block |-> b], fork_push_front(fk.fork, b).fork,
                    [ok |-> fork_push_front(fk.fork, b).ok])
    /\ UNCHANGED organizer_vars

\* fork.set_height(h)
ForkSetHeight(h) ==
    /\ fk' = Called("set_height", [height |-> h], fork_set_height(fk.fork, h),
                    [none |-> TRUE])
    /\ UNCHANGED organizer_vars

\* fork.get_bits(out, h)
ForkGetBits(out, h) ==
    /\ fk' = Called("get_bits", [height |-> h, out |-> out], fk.fork,
                    fork_get_bits(fk.fork, out, h))
    /\ UNCHANGED organizer_vars

\* fork.get_version(out, h)
ForkGetVersion(out, h) ==
    /\ fk' = Called("get_version", [height |-> h, out |-> out], fk.fork,
                    fork_get_version(fk.fork, out, h))
    /\ UNCHANGED organizer_vars

\* fork.get_timestamp(out, h)
ForkGetTimestamp(out, h) ==
    /\ fk' = Called("get_timestamp", [height |-> h, out |-> out], fk.fork,
                    fork_get_timestamp(fk.fork, out, h))
    /\ UNCHANGED organizer_vars

\* fork.get_block_hash(out, h)
ForkGetBlockHash(out, h) ==
    /\ fk' = Called("get_block_hash", [height |-> h, out |-> out], fk.fork,
                    fork_get_block_hash(fk.fork, out, h))
    /\ UNCHANGED organizer_vars

\* fork.populate_spent(outpoint), for an outpoint some input of the fork
\* spends (BITCOIN_ASSERT(spent > 0)).
ForkPopulateSpent(outpoint) ==
    /\ fork_populate_spent(fk.fork, outpoint).count > 0
    /\ fk' = Called("populate_spent", [outpoint |-> outpoint], fk.fork,
                    fork_populate_spent(fk.fork, outpoint))
    /\ UNCHANGED organizer_vars

\* fork.populate_prevout(outpoint)
ForkPopulatePrevout(outpoint) ==
    /\ fk' = Called("populate_prevout", [outpoint |-> outpoint], fk.fork,
                    fork_populate_prevout(fk.fork, outpoint))
    /\ UNCHANGED organizer_vars

\* The values an output argument holds before a getter is called.
OutBefore == {0, 99}

ForkNext ==
    \/ \E b \in Blocks : ForkPushFront(b)
    \/ \E h \in 0..SIZE_MAX : ForkSetHeight(h)
    \/ \E out \in OutBefore, h \in 0..SIZE_MAX : ForkGetBits(out, h)
    \/ \E out \in OutBefore, h \in 0..SIZE_MAX : ForkGetVersion(out, h)
    \/ \E out \in OutBefore, h \in 0..SIZE_MAX : ForkGetTimestamp(out, h)
    \/ \E out \in OutBefore, h \in 0..SIZE_MAX : ForkGetBlockHash(out, h)
    \/ \E outpoint \in Outpoints : ForkPopulateSpent(outpoint)
    \/ \E outpoint \in Outpoints : ForkPopulatePrevout(outpoint)

\* A fork object used on its own, from fork::fork() on.
ForkSpec == Init /\ [][ForkNext]_vars

\* ------------------------------------------------------------ specification
Next ==
    \/ \E a \in Attempts, b \in Submittable : Call(a, b)
    \/ \E a \in Attempts : Acquire(a)
    \/ \E a \in Attempts, cec \in {Success, CheckFailed} : OrganizeBody(a, cec)
    \/ \E a \in Attempts, ec \in {Success, AcceptFailed} : ValidatorAccept(a, ec)
    \/ \E a \in Attempts : HandleAccept(a)
    \/ \E a \in Attempts, ec \in {Success, ConnectFailed} : ValidatorConnect(a, ec)
    \/ \E a \in Attempts, qok \in BOOLEAN : HandleConnect(a, qok)
    \/ \E a \in Attempts, ec \in {Success, StoreFailed}, partial \in BOOLEAN :
           StoreReorganize(a, ec, partial)
    \/ \E a \in Attempts : HandleReorganized(a)
    \/ \E a \in Attempts : Unwind(a)
    \/ StartBegin
    \/ \E ok \in BOOLEAN : StartReturn(ok)
    \/ StopBegin
    \/ StopLock
    \/ StopSetStopped
    \/ \E ok \in BOOLEAN : StopReturn(ok)

Spec == Init /\ [][Next]_vars

\* The scheduling the organize sequence relies on: every thread keeps
\* running, the mutex eventually admits a waiting organize, and the validator
\* and the store each complete an operation they were given.
Fairness ==
    /\ \A a \in Attempts : SF_vars(Acquire(a))
    /\ \A a \in Attempts : WF_vars(\E cec \in {Success, CheckFailed} : OrganizeBody(a, cec))
    /\ \A a \in Attempts : WF_vars(\E ec \in {Success, AcceptFailed} : ValidatorAccept(a, ec))
    /\ \A a \in Attempts : WF_vars(HandleAccept(a))
    /\ \A a \in Attempts : WF_vars(\E ec \in {Success, ConnectFailed} : ValidatorConnect(a, ec))
    /\ \A a \in Attempts : WF_vars(\E qok \in BOOLEAN : HandleConnect(a, qok))
    /\ \A a \in Attempts :
         WF_vars(\E ec \in {Success, StoreFailed}, partial \in BOOLEAN :
                    StoreReorganize(a, ec, partial))
    /\ \A a \in Attempts : WF_vars(HandleReorganized(a))
    /\ \A a \in Attempts : WF_vars(Unwind(a))
    /\ WF_vars(StopSetStopped)
    /\ WF_vars(\E ok \in BOOLEAN : StopReturn(ok))

LiveSpec == Spec /\ Fairness

\* ------------------------------------------- the continuations on their own
\* The value stopped() returns to a continuation, taken as an input of that
\* continuation: the flag turns true while an attempt is under way.
StoppedRaised ==
    /\ ~stopped
    /\ \E a \in Attempts :
         att[a].pc \in {"accepting", "accepted", "connecting", "connected",
                        "reorganizing", "reorganized"}
    /\ stopped' = TRUE
    /\ UNCHANGED <<fk, calls, flush, mutex, chain, writes, pool, subscriber,
                   invoked, ctl, att>>

CancelNext ==
    \/ Next
    \/ StoppedRaised

CancelSpec == Init /\ [][CancelNext]_vars

\* ------------------------------------------------------------ vocabulary
\* The attempt is between its mutex acquisition and its terminal reply.
Active(a) ==
    att[a].pc \in {"locked", "accepting", "accepted", "connecting", "connected",
                   "reorganizing", "reorganized"}

\* The attempt keeps the organize mutex locked.
Holding(a) == att[a].lockCopies # {}

\* The attempt has made its terminal reply and has not yet unwound.
Replied(a) == att[a].pc = "replied"

\* The trace holds an event with this op and code.
Has(r, op, code) ==
    \E i \in 1..Len(r.trace) : r.trace[i].op = op /\ r.trace[i].code = code

\* The ops of a trace, in order.
OpSeq(t) == [i \in 1..Len(t) |-> t[i].op]

\* The block-pool calls of a trace, in order.
PoolOps == {"pool_add", "pool_add_list", "pool_remove", "pool_prune"}

\* ------------------------------------------------------------------ claims
\* The attempt reached the work stage: get_fork_difficulty answered.
WorkStage(r) == Has(r, "get_fork_difficulty", Success)

\* C1: an attempt that reaches the work stage with fork.difficulty() less
\* than or equal to the store's threshold replies insufficient_work, makes
\* one block-pool call, add(fork.top()), never calls store.reorganize, and
\* leaves the store's chain as it was when the attempt began.
C1_InsufficientWork ==
    \A a \in Attempts :
      LET r == att[a]
      IN  (WorkStage(r) /\ fork_difficulty(r.fork) <= r.threshold) =>
            /\ r.pc = "replied"
            /\ r.replies = <<InsufficientWork>>
            /\ "reorganize" \notin Ops(r)
            /\ chain = r.chain0
            /\ pool = r.pool0 \cup {r.fork.blocks[Len(r.fork.blocks)]}
            /\ \A i \in 1..Len(r.trace) :
                 r.trace[i].op \in PoolOps =>
                   /\ r.trace[i].op = "pool_add"
                   /\ r.trace[i].n = r.fork.blocks[Len(r.fork.blocks)]
            /\ Cardinality(EventsOf(r, "pool_add")) = 1

\* C1 witness: an attempt whose fork has exactly the threshold's work has
\* replied.
C1_Witness ==
    \E a \in Attempts :
      /\ WorkStage(att[a])
      /\ fork_difficulty(att[a].fork) = att[a].threshold
      /\ att[a].threshold > 0
      /\ att[a].pc = "replied"

\* The calls that precede store.reorganize in an attempt, in order.
ReorganizePrefix ==
    <<"check", "get_path", "get_block_exists", "get_height", "accept",
      "handle_accept", "connect", "handle_connect", "get_fork_difficulty",
      "reorganize">>

\* C2: store.reorganize is invoked only after, in the same attempt, check
\* succeeded, the fork was not empty and its block not in the store, the
\* fork point was found, accept and then connect completed with success, and
\* fork.difficulty() exceeded the threshold asked for fork.height() + 1.
C2_ReorganizeOnlyIf ==
    \A a \in Attempts :
      LET r == att[a]
          t == r.trace
      IN  "reorganize" \in Ops(r) =>
            /\ Len(t) >= Len(ReorganizePrefix)
            /\ SubSeq(OpSeq(t), 1, Len(ReorganizePrefix)) = ReorganizePrefix
            /\ t[1].code = Success
            /\ t[2].blocks # <<>>
            /\ t[3].code = "not_found"
            /\ ~get_block_exists(r.chain0, r.block)
            /\ t[4].code = Success
            /\ get_block_exists(r.chain0, PreviousBlockHash[Head(r.fork.blocks)])
            /\ t[6].code = Success
            /\ t[8].code = Success
            /\ t[9].code = Success
            /\ t[9].n = r.fork.height + 1
            /\ r.difficulty = SumDifficulty(r.fork.blocks)
            /\ r.difficulty > r.threshold

\* C2 witness: store.reorganize has been invoked.
C2_Witness ==
    \E a \in Attempts : att[a].pc = "reorganizing" /\ att[a].threshold > 0

\* C3: at most one organize attempt is between its mutex acquisition and the
\* release of the mutex, so the calls of two attempts never interleave.
C3_OneInFlight ==
    /\ Cardinality({a \in Attempts : Active(a) \/ Holding(a)}) <= 1
    /\ \A a \in Attempts : Active(a) => mutex.exclusive /\ mutex.shared = 0

\* C3 witness: one attempt is in its asynchronous validation while another
\* caller waits at the entry of organize.
C3_Witness ==
    \E a, b \in Attempts :
      a # b /\ att[a].pc = "connecting" /\ att[b].pc = "entry"

\* C4: when stopped is true at the entry of organize, the attempt replies
\* service_stopped and makes no validator, block-pool or store call.
C4_StoppedRejects ==
    \A a \in Attempts :
      LET r == att[a]
      IN  (r.stopped0 /\ r.pc \notin {"new", "entry", "locked", "done"}) =>
            /\ r.pc = "replied"
            /\ r.replies = <<ServiceStopped>>
            /\ OpSeq(r.trace) = <<"reply">>
            /\ chain = r.chain0
            /\ pool = r.pool0

\* C4 witness: an attempt was rejected after stop() had completed.
C4_Witness ==
    \E a \in Attempts :
      /\ att[a].stopped0
      /\ att[a].pc = "replied"
      /\ ctl.state = "stopped"

\* The handler has been invoked as often as the attempt's position allows:
\* once when the attempt has replied, not at all before.
RepliedOnce(a) ==
    /\ Len(att[a].replies) <= 1
    /\ att[a].pc = "replied" <=> Len(att[a].replies) = 1
    /\ Cardinality(EventsOf(att[a], "reply")) = Len(att[a].replies)

\* C5: the caller's handler is invoked at most once on every path, and every
\* organize invocation is eventually answered when the validator and the
\* store complete what they were given.
C5_ExactlyOnce ==
    /\ [](\A a \in Attempts : RepliedOnce(a))
    /\ \A a \in Attempts : (att[a].pc = "entry") ~> (att[a].pc = "replied")

\* C5 witness: an attempt that went through accept, connect and
\* store.reorganize has been answered once.
C5_Witness ==
    \E a \in Attempts :
      /\ att[a].pc = "replied"
      /\ "handle_reorganized" \in Ops(att[a])
      /\ Len(att[a].replies) = 1

\* The calls handle_reorganized makes after a successful reorganize.
ReorganizedSuffix ==
    <<"handle_reorganized", "pool_remove", "pool_prune", "pool_add_list",
      "notify", "reply">>

\* The events of a trace from the first event with the given op on.
From(t, op) ==
    LET first == CHOOSE i \in 1..Len(t) :
                   t[i].op = op /\ \A j \in 1..(i - 1) : t[j].op # op
    IN  SubSeq(t, first, Len(t))

\* C6: after a successful store.reorganize the organizer calls, each once
\* and in this order, block_pool.remove(fork.blocks),
\* block_pool.prune(fork.top_height()), block_pool.add(outgoing), the
\* notification (success, fork.height(), fork.blocks, outgoing) and then the
\* reply success.
C6_ReorganizedOrder ==
    \A a \in Attempts :
      LET r == att[a]
          u == From(r.trace, "handle_reorganized")
      IN  Has(r, "handle_reorganized", Success) =>
            /\ OpSeq(u) = ReorganizedSuffix
            /\ u[2].blocks = r.fork.blocks
            /\ u[3].n = r.fork.height + Len(r.fork.blocks)
            /\ u[4].out = r.outgoing
            /\ u[5].code = Success
            /\ u[5].n = r.fork.height
            /\ u[5].blocks = r.fork.blocks
            /\ u[5].out = r.outgoing
            /\ u[6].code = Success
            /\ r.replies = <<Success>>
            /\ Cardinality(EventsOf(r, "pool_add")) = 0
            /\ (invoked # <<>> /\ invoked.by = a) =>
                 invoked = [ec |-> Success, height |-> r.fork.height,
                            blocks |-> r.fork.blocks, out |-> r.outgoing,
                            by |-> a]

\* C6 witness: a reorganization that displaced a main-chain block has been
\* answered.
C6_Witness ==
    \E a \in Attempts :
      /\ Has(att[a], "handle_reorganized", Success)
      /\ att[a].pc = "replied"
      /\ att[a].outgoing # <<>>
      /\ invoked # <<>> /\ invoked.by = a

\* C7: when store.reorganize completes with an error code the organizer
\* replies that code, makes no block-pool call and notifies nobody.
C7_StoreError ==
    \A a \in Attempts :
      LET r == att[a]
      IN  (\E i \in 1..Len(r.trace) :
             r.trace[i].op = "handle_reorganized" /\ r.trace[i].code # Success) =>
            /\ r.replies = <<StoreFailed>>
            /\ r.ec = StoreFailed
            /\ OpSeq(From(r.trace, "handle_reorganized")) =
                 <<"handle_reorganized", "reply">>
            /\ Ops(r) \cap (PoolOps \cup {"notify"}) = {}
            /\ pool = r.pool0
            /\ invoked # <<>> => invoked.by # a

\* C7 witness: a failed reorganize has been answered.
C7_Witness ==
    \E a \in Attempts :
      /\ Has(att[a], "handle_reorganized", StoreFailed)
      /\ att[a].pc = "replied"

\* C8: every subscriber invocation carries success or service_stopped:
\* success is sent by an attempt after its store.reorganize succeeded,
\* service_stopped by stop() with height 0 and empty block lists; an attempt
\* that ends otherwise notifies nobody.
C8_Notifications ==
    /\ invoked # <<>> =>
         /\ invoked.ec \in {Success, ServiceStopped}
         /\ invoked.ec = ServiceStopped =>
              /\ invoked.by = 0
              /\ invoked.height = 0
              /\ invoked.blocks = <<>>
              /\ invoked.out = <<>>
         /\ invoked.ec = Success =>
              /\ invoked.by \in Attempts
              /\ att[invoked.by].pc \in {"replied", "done"}
              /\ att[invoked.by].pc = "replied" =>
                   /\ Has(att[invoked.by], "handle_reorganized", Success)
                   /\ "reorganize" \in Ops(att[invoked.by])
    /\ \A a \in Attempts :
         LET r == att[a]
         IN  /\ "notify" \in Ops(r) =>
                  /\ Has(r, "handle_reorganized", Success)
                  /\ r.replies = <<Success>>
                  /\ Cardinality(EventsOf(r, "notify")) = 1
             /\ (r.pc = "replied" /\ r.replies # <<Success>>) =>
                  /\ "notify" \notin Ops(r)
                  /\ invoked # <<>> => invoked.by # a

\* C8 witness: a reorganization has been notified to the subscribers.
C8_Witness ==
    /\ invoked # <<>>
    /\ invoked.ec = Success
    /\ att[invoked.by].pc = "replied"

\* stop() is setting stopped_, or evaluating its return statement (the call
\* of end_writes included) and returning.
StopProceeds ==
    \/ ctl.pc = "stop_locked" /\ ctl'.pc = "stop_writes"
    \/ ctl.pc = "stop_writes" /\ ctl'.pc = "idle"
    \/ stopped' /\ ~stopped
    \/ writes.open /\ ~writes'.open

\* C9: stop() neither sets stopped, nor calls end_writes, nor returns while
\* an organize attempt holds the mutex; end_writes is never called between
\* the invocation of store.reorganize and its completion.
C9_StopBlocks ==
    [][StopProceeds =>
         \A a \in Attempts :
           /\ ~Holding(a)
           /\ ~Active(a)
           /\ att[a].pc \notin {"reorganizing", "reorganized"}]_vars

\* C9 witness: stop() waits for the mutex while a store.reorganize is under
\* way.
C9_Witness ==
    /\ ctl.pc = "stop_wait"
    /\ \E a \in Attempts : att[a].pc = "reorganizing" /\ Holding(a)

\* C10: start() calls begin_writes and stop() calls end_writes exactly when
\* flush_reorganizations is false; store.reorganize is passed that flag; and
\* when start() has returned true with the flag false, store.reorganize runs
\* with the flush lock held from its invocation to its completion.
C10_FlushLock ==
    /\ ctl.last \in {"start", "stop"} => (ctl.wrote <=> ~flush)
    /\ (~flush /\ ctl.state = "started") => writes.open
    /\ \A a \in Attempts :
         LET r == att[a]
         IN  \A i \in EventsOf(r, "reorganize") :
               /\ r.trace[i].code = "flush" <=> flush
               /\ r.trace[i].code = "no_flush" <=> ~flush
               /\ (~flush /\ r.started0) =>
                    /\ r.writes0
                    /\ r.pc \in {"reorganizing", "reorganized"} => writes.open

\* C10 witness: with flush_reorganizations false and start() returned, a
\* store.reorganize is under way under the flush lock.
C10_Witness ==
    /\ ~flush
    /\ \E a \in Attempts :
         /\ att[a].pc = "reorganizing"
         /\ att[a].started0
         /\ writes.open

\* The attempt got past check(block) and asked the pool for the path.
PathStage(r) == Has(r, "check", Success) /\ "get_path" \in Ops(r)

\* C11: when get_path returns an empty fork, or the store holds a block with
\* the incoming hash at any height, the attempt replies duplicate_block,
\* never calls set_fork_height, accept, connect or store.reorganize, and
\* leaves the block pool and the chain as they were.
C11_Duplicate ==
    \A a \in Attempts :
      LET r == att[a]
      IN  (PathStage(r) /\ (\/ fork_empty(get_path(r.pool0, r.block))
                            \/ get_block_exists(r.chain0, r.block))) =>
            /\ r.pc = "replied"
            /\ r.replies = <<DuplicateBlock>>
            /\ Ops(r) \cap {"get_height", "accept", "connect", "reorganize"} = {}
            /\ Ops(r) \cap PoolOps = {}
            /\ pool = r.pool0
            /\ chain = r.chain0

\* C11 witness: a block that the pool gives a path for, and that the store
\* holds above the fork point of that path, was answered duplicate_block.
C11_Witness ==
    \E a \in Attempts :
      LET r == att[a]
      IN  /\ r.pc = "replied"
          /\ r.replies = <<DuplicateBlock>>
          /\ ~fork_empty(r.fork)
          /\ get_block_exists(r.chain0, fork_hash(r.fork))
          /\ get_height(r.chain0, r.block).height
                > get_height(r.chain0, fork_hash(r.fork)).height

\* The attempt asked the store for the height of the fork point.
AnchorStage(r) == "get_height" \in Ops(r)

\* C12: when the store does not know the fork-point hash the attempt replies
\* orphan_block with the fork as get_path returned it and never calls
\* accept, connect or store.reorganize; otherwise the fork's parent height is
\* the height the store holds for the fork-point hash, set before accept.
C12_Anchor ==
    \A a \in Attempts :
      LET r == att[a]
          f0 == get_path(r.pool0, r.block)
          found == get_height(r.chain0, fork_hash(f0))
      IN  AnchorStage(r) =>
            IF ~found.ok
              THEN /\ r.pc = "replied"
                   /\ r.replies = <<OrphanBlock>>
                   /\ r.fork = f0
                   /\ Ops(r) \cap {"accept", "connect", "reorganize"} = {}
              ELSE /\ r.fork.height = found.height
                   /\ r.fork.blocks = f0.blocks
                   /\ \A i \in EventsOf(r, "accept"), j \in EventsOf(r, "get_height") :
                        j < i /\ r.trace[j].code = Success

\* C12 witness: a block whose parent neither the pool nor the store knows was
\* answered orphan_block.
C12_Witness ==
    \E a \in Attempts :
      /\ att[a].pc = "replied"
      /\ att[a].replies = <<OrphanBlock>>
      /\ ~get_block_exists(att[a].chain0, fork_hash(att[a].fork))

\* The attempt has started its check: it is past the stopped test of organize.
Started(a) == att[a].pc \notin {"new", "entry", "locked"}

\* The attempt has made its terminal reply.
Answered(a) == att[a].pc \in {"replied", "done"}

\* C13 as stated: whenever organize(A) was called before organize(B), A has
\* made its terminal reply before B starts its check.
C13_CallOrder ==
    \A i, j \in 1..Len(calls) :
      (i < j /\ Started(calls[j])) => Answered(calls[i])

\* C13: whenever organize(A) had taken the organizer mutex before
\* organize(B) was called, A has made its terminal reply before B starts its
\* check; callers that wait for the mutex together are admitted in any order.
C13_LockOrder ==
    \A a, b \in Attempts :
      (a \in att[b].lockedBefore /\ Started(b)) => Answered(a)

\* C13 witness: B was called while A held the mutex; A has made its reply
\* and B still waits at the entry of organize.
C13_Witness ==
    \E a, b \in Attempts :
      /\ a \in att[b].lockedBefore
      /\ att[a].pc = "replied"
      /\ "handle_connect" \in Ops(att[a])
      /\ att[b].pc = "entry"

\* ------------------------------------------------------ claims on the fork
\* The inputs of the fork's blocks that spend the outpoint: block index,
\* transaction position and input position.
Spends(f, outpoint) ==
    {t \in (1..Len(f.blocks)) \X (1..2) \X (1..2) :
       /\ t[2] <= Len(Transactions[f.blocks[t[1]]])
       /\ t[3] <= Len(Transactions[f.blocks[t[1]]][t[2]].inputs)
       /\ Transactions[f.blocks[t[1]]][t[2]].inputs[t[3]] = outpoint}

\* C14 as stated: populate_spent(outpoint) sets spent, and confirmed equal to
\* spent, to true exactly when more than one input of the fork's blocks has
\* the outpoint as its previous output, whatever the size of the fork.
C14_SpentIffCount ==
    fk.op = "populate_spent" =>
      /\ fk.ret.spent <=> Cardinality(Spends(fk.fork, fk.arg.outpoint)) > 1
      /\ fk.ret.confirmed = fk.ret.spent

\* The transactions of the fork that hold the output the outpoint names:
\* block index and transaction position, both from 0.
Holders(f, outpoint) ==
    {t \in (0..(Len(f.blocks) - 1)) \X (0..1) :
       /\ t[2] < Len(Transactions[f.blocks[t[1] + 1]])
       /\ Transactions[f.blocks[t[1] + 1]][t[2] + 1].hash = outpoint.hash
       /\ outpoint.index < Len(Transactions[f.blocks[t[1] + 1]][t[2] + 1].outputs)}

\* The holder BIP30 selects: the highest block, and in it the first position.
Holder(f, outpoint) ==
    CHOOSE t \in Holders(f, outpoint) :
      \A u \in Holders(f, outpoint) :
        u[1] < t[1] \/ (u[1] = t[1] /\ u[2] >= t[2])

\* The output a holder has at the outpoint's index.
HeldOutput(f, outpoint, t) ==
    Transactions[f.blocks[t[1] + 1]][t[2] + 1].outputs[outpoint.index + 1]

\* populate_prevout left cache and height as it initialises them.
PrevoutUnset(ret) == ret.cache = InvalidOutput /\ ret.height = NOT_SPECIFIED

\* C15 as stated: for a non-null outpoint that some transaction holds, cache
\* is the selected holder's output and height is that block's height exactly
\* when the holder is at position 0; otherwise cache is the invalid output
\* and height is not_specified.
C15_Prevout ==
    fk.op = "populate_prevout" =>
      LET f == fk.fork
          outpoint == fk.arg.outpoint
          t == Holder(f, outpoint)
      IN  IF is_null(outpoint) \/ Holders(f, outpoint) = {}
            THEN PrevoutUnset(fk.ret) /\ ~fk.ret.thrown
            ELSE /\ ~fk.ret.thrown
                 /\ fk.ret.cache = HeldOutput(f, outpoint, t)
                 /\ fk.ret.height =
                      IF t[2] = 0 THEN f.height + t[1] + 1 ELSE NOT_SPECIFIED

\* C15: as stated, for a holder whose output is valid and whose block height
\* parent_height + index + 1 fits size_t; when the output found is not
\* valid the result is that of finding nothing, and when the height does not
\* fit, height_at raises with cache and height left as initialised.
C15_PrevoutValid ==
    fk.op = "populate_prevout" =>
      LET f == fk.fork
          outpoint == fk.arg.outpoint
          t == Holder(f, outpoint)
      IN  IF is_null(outpoint) \/ Holders(f, outpoint) = {}
            THEN PrevoutUnset(fk.ret) /\ ~fk.ret.thrown
          ELSE IF f.height + t[1] + 1 > SIZE_MAX
            THEN PrevoutUnset(fk.ret) /\ fk.ret.thrown
          ELSE IF ~HeldOutput(f, outpoint, t).valid
            THEN PrevoutUnset(fk.ret) /\ ~fk.ret.thrown
          ELSE /\ ~fk.ret.thrown
               /\ fk.ret.cache = HeldOutput(f, outpoint, t)
               /\ fk.ret.height =
                    IF t[2] = 0 THEN f.height + t[1] + 1 ELSE NOT_SPECIFIED

\* C15 witness: in a three-block fork above a non-zero parent height the
\* output was found below the top block, at position 0, and the height set.
C15_Witness ==
    /\ fk.op = "populate_prevout"
    /\ fork_size(fk.fork) = 3
    /\ fk.fork.height > 0
    /\ Holders(fk.fork, fk.arg.outpoint) # {}
    /\ Holder(fk.fork, fk.arg.outpoint) = <<1, 0>>
    /\ fk.ret.cache.valid
    /\ fk.ret.height = fk.fork.height + 2

\* C16: push_front(b) succeeds on an empty fork; on a non-empty fork it
\* succeeds exactly when b's hash is the previous-block-hash of the front
\* block; on success the size grows by one, b is block_at(0) and the earlier
\* blocks move up by one; on failure the list, size and hash() are unchanged.
C16_PushFront ==
    fk.op = "push_front" =>
      LET pre == fk.pre
          f == fk.fork
          b == fk.arg.block
      IN  /\ fk.ret.ok <=>
                (Len(pre.blocks) = 0 \/ b = PreviousBlockHash[pre.blocks[1]])
          /\ fk.ret.ok =>
                /\ fork_size(f) = fork_size(pre) + 1
                /\ fork_block_at(f, 0) = b
                /\ \A i \in 0..(fork_size(pre) - 1) :
                     fork_block_at(f, i + 1) = fork_block_at(pre, i)
          /\ ~fk.ret.ok =>
                /\ f.blocks = pre.blocks
                /\ fork_size(f) = fork_size(pre)
                /\ fork_hash(f) = fork_hash(pre)
          /\ f.height = pre.height

\* C16 witness: a block was pushed in front of two linked blocks.
C16_Witness ==
    /\ fk.op = "push_front"
    /\ fk.ret.ok
    /\ fork_size(fk.pre) = 2
    /\ fork_size(fk.fork) = 3

\* C17: in every fork built by push_front and set_height calls, each block
\* after the first names the block before it as its previous block.
C17_Linkage ==
    \A i \in 1..(Len(fk.fork.blocks) - 1) :
      PreviousBlockHash[fk.fork.blocks[i + 1]] = fk.fork.blocks[i]

\* C17 witness: a push_front on a three-block fork was refused.
C17_Witness ==
    /\ fk.op = "push_front"
    /\ ~fk.ret.ok
    /\ Len(fk.fork.blocks) = 3

\* C18: hash() is NULL_HASH for the empty fork and the previous-block-hash
\* of block_at(0) otherwise; a successful push_front(b) makes it b's
\* previous-block-hash, and set_height and a refused push_front keep it.
C18_Hash ==
    /\ fork_hash(fk.fork) =
         IF fork_size(fk.fork) = 0 THEN NULL_HASH
         ELSE PreviousBlockHash[fork_block_at(fk.fork, 0)]
    /\ (fk.op = "push_front" /\ fk.ret.ok) =>
         fork_hash(fk.fork) = PreviousBlockHash[fk.arg.block]
    /\ (fk.op = "push_front" /\ ~fk.ret.ok) => fork_hash(fk.fork) = fork_hash(fk.pre)
    /\ fk.op = "set_height" => fork_hash(fk.fork) = fork_hash(fk.pre)

\* C18 witness: a second block was pushed and hash() moved to its
\* previous-block-hash.
C18_Witness ==
    /\ fk.op = "push_front"
    /\ fk.ret.ok
    /\ fork_size(fk.fork) = 2
    /\ fork_hash(fk.fork) # fork_hash(fk.pre)
    /\ fork_hash(fk.fork) # NULL_HASH

\* C19 as stated: top_height() is 0 for the empty fork and parent_height +
\* size otherwise, top() is none for the empty fork and the last block
\* otherwise, and for a non-empty fork top_height() is height_at(size - 1).
C19_TopHeight ==
    LET f == fk.fork
    IN  /\ fork_top_height(f) = IF Len(f.blocks) = 0 THEN 0 ELSE f.height + Len(f.blocks)
        /\ fork_top(f) = IF Len(f.blocks) = 0 THEN 0 ELSE f.blocks[Len(f.blocks)]
        /\ Len(f.blocks) > 0 => fork_top_height(f) = fork_height_at(f, fork_size(f) - 1)

\* The header field, or the hash, each getter reads.
GetterField ==
    [get_bits |-> HeaderBits, get_version |-> HeaderVersion,
     get_timestamp |-> HeaderTimestamp, get_block_hash |-> [b \in Blocks |-> b]]

\* C20: each getter returns true exactly when h > parent_height and
\* h - parent_height - 1 < size, and then hands out the field of the block
\* at that index; otherwise it returns false with the output argument as it
\* was, and index_of is never evaluated with h <= parent_height.
C20_Getters ==
    fk.op \in DOMAIN GetterField =>
      LET f == fk.fork
          h == fk.arg.height
      IN  /\ fk.ret.ok <=> (h > f.height /\ h - f.height - 1 < Len(f.blocks))
          /\ fk.ret.ok => fk.ret.out = GetterField[fk.op][f.blocks[h - f.height]]
          /\ ~fk.ret.ok => fk.ret.out = fk.arg.out
          /\ \A i \in 1..Len(fk.ret.indexed) : fk.ret.indexed[i] > f.height
          /\ ~fk.ret.thrown

\* C20 witness: get_timestamp read the middle block of a three-block fork
\* above a non-zero parent height.
C20_Witness ==
    /\ fk.op = "get_timestamp"
    /\ fk.ret.ok
    /\ Len(fk.fork.blocks) = 3
    /\ fk.fork.height > 0
    /\ fk.arg.height = fk.fork.height + 2
    /\ fk.ret.out # fk.arg.out

RECURSIVE ClaimedWork(_, _)
\* The claimed work of the first n blocks of a list, taken from the back.
ClaimedWork(bs, n) ==
    IF n = 0 THEN 0 ELSE ClaimedWork(bs, n - 1) + BlockDifficulty[bs[n]]

\* C21: difficulty() is the sum of the claimed work of the blocks in the
\* fork, 0 for the empty fork; a successful push_front(b) adds b's claimed
\* work to it, and a refused push_front or a set_height leaves it as it was.
C21_Difficulty ==
    /\ fork_difficulty(fk.fork) = ClaimedWork(fk.fork.blocks, Len(fk.fork.blocks))
    /\ Len(fk.fork.blocks) = 0 => fork_difficulty(fk.fork) = 0
    /\ (fk.op = "push_front" /\ fk.ret.ok) =>
         fork_difficulty(fk.fork)
           = fork_difficulty(fk.pre) + BlockDifficulty[fk.arg.block]
    /\ (fk.op = "push_front" /\ ~fk.ret.ok) =>
         fork_difficulty(fk.fork) = fork_difficulty(fk.pre)
    /\ fk.op = "set_height" => fork_difficulty(fk.fork) = fork_difficulty(fk.pre)

\* C21 witness: a third block was pushed and the difficulty grew by its work.
C21_Witness ==
    /\ fk.op = "push_front"
    /\ fk.ret.ok
    /\ Len(fk.fork.blocks) = 3
    /\ fork_difficulty(fk.fork) > fork_difficulty(fk.pre)
    /\ fork_difficulty(fk.pre) > BlockDifficulty[fk.pre.blocks[2]]

\* The validator and store calls that make up a validation.
ValidationOps ==
    {"check", "accept", "connect", "get_fork_difficulty", "reorganize"}

\* A call to stop() has returned and start() has not been called since.
StopReturned == ctl.last = "stop" /\ ctl.pc = "idle"

\* The validation calls the step adds to the trace of attempt a.
NewValidation(a) ==
    {i \in 1..Len(att'[a].trace) :
        /\ i > Len(att[a].trace)
        /\ att'[a].trace[i].op \in ValidationOps}

\* C22: once stop() has returned and until start() is called again, no
\* organize call invokes validator.check, accept or connect, or the store's
\* get_fork_difficulty or reorganize, and none is in the middle of a
\* validation.
C22_NoValidationAfterStop ==
    [][StopReturned =>
         /\ \A a \in Attempts : NewValidation(a) = {}
         /\ \A a \in Attempts :
              att[a].pc \notin {"accepting", "accepted", "connecting",
                                "connected", "reorganizing", "reorganized"}]_vars

\* C22 witness: after stop() has returned, one attempt that validated before
\* the stop is over and another has been refused at the entry.
C22_Witness ==
    /\ StopReturned
    /\ \E a, b \in Attempts :
         /\ att[a].pc = "done"
         /\ att[b].pc = "replied"
         /\ att[b].stopped0
         /\ att[b].replies = <<ServiceStopped>>
         /\ Ops(att[b]) \cap ValidationOps = {}

\* C23: when the caller's handler runs, the attempt's critical section has
\* ended: no copy of the scope_lock pointer (the local of organize, the copy
\* bound into the continuation) is left and the mutex is unlocked.
C23_ReleasedBeforeReply ==
    \A a \in Attempts :
      Replied(a) =>
        /\ ~att[a].heldAtReply
        /\ att[a].lockCopies = {}
        /\ ~mutex.exclusive

\* The calls an attempt makes on the validator, the store and the block pool.
CalleeOps ==
    ValidationOps \cup PoolOps \cup {"get_path", "get_block_exists", "get_height"}

\* The attempt a made no validator, store or block-pool call after the
\* continuation named k began.
NothingAfter(a, k) ==
    \A i \in EventsOf(att[a], k) :
      \A j \in (i + 1)..Len(att[a].trace) : att[a].trace[j].op \notin CalleeOps

\* The attempt a, which met stopped() = true at the continuations in ks or at
\* the entry, replied service_stopped and called nothing from there on.
Cancelled(a, ks) ==
    /\ att[a].stopped0 => Ops(att[a]) \cap CalleeOps = {}
    /\ (att[a].stopped0 \/ att[a].sawStopped \cap ks # {}) =>
         att[a].replies = <<ServiceStopped>>
    /\ \A k \in att[a].sawStopped \cap ks : NothingAfter(a, k)

Checked(v) == v \in {Overflow, SIZE_MAX}

\* C25: no height computation hands back a value wrapped modulo 2^SizeBits:
\* height_at(i) when parent_height + i + 1 overflows, index_of(h) when
\* h <= parent_height, top_height() when parent_height + size overflows, the
\* guard of set_fork_height when store height + size overflows and
\* first_height = height() + 1 of handle_connect each raise an error or
\* saturate.  handle_connect sees only forks that set_fork_height's guard
\* let through.
C25_CheckedHeights ==
    LET f == fk.fork
    IN  /\ \A i \in 0..SIZE_MAX :
             f.height + i + 1 > SIZE_MAX => Checked(fork_height_at(f, i))
        /\ \A h \in 0..SIZE_MAX :
             h <= f.height => fork_index_of(f, h) = Overflow
        /\ (~fork_empty(f) /\ f.height + fork_size(f) > SIZE_MAX) =>
             Checked(fork_top_height(f))
        /\ \A h \in 0..SIZE_MAX :
             h + fork_size(f) > SIZE_MAX => Checked(chain_size_guard(h, f))
        /\ (~fork_empty(f) /\ chain_size_guard(f.height, f) # Overflow
               /\ f.height + 1 > SIZE_MAX) =>
             Checked(first_height_of(f))

\* The block-pool calls of the attempt a that change the pool, in order.
PoolCalls(a) == SelectSeq(OpSeq(att[a].trace), LAMBDA o : o \in PoolOps)

\* The codes of an attempt that ends before the work comparison or before
\* the store write.
EarlyCodes ==
    {ServiceStopped, CheckFailed, DuplicateBlock, OrphanBlock, AcceptFailed,
     ConnectFailed, OperationFailed}

\* The attempt a changed the block pool only by add(fork.top()) when it ended
\* with insufficient_work, and by remove, prune and add(outgoing) when it
\* ended with success.
PoolFrame(a) ==
    LET code == att[a].replies[1]
    IN  /\ code = InsufficientWork =>
             /\ PoolCalls(a) = <<"pool_add">>
             /\ pool = pool_add(att[a].pool0, fork_top(att[a].fork))
        /\ code = Success =>
             PoolCalls(a) = <<"pool_remove", "pool_prune", "pool_add_list">>
        /\ code \notin {InsufficientWork, Success} =>
             /\ PoolCalls(a) = <<>>
             /\ pool = att[a].pool0

\* C26: an attempt changes the block pool only by add(fork.top()) when it
\* ends with insufficient_work and by remove, prune, add(outgoing) after a
\* successful reorganize; an attempt that ends with any other code,
\* the store's error included, leaves the block pool and the store as they
\* were.
C26_Frame ==
    \A a \in Attempts :
      Replied(a) =>
        /\ PoolFrame(a)
        /\ att[a].replies[1] \in EarlyCodes \cup {StoreFailed} =>
             chain = att[a].chain0

\* C26, amended: the same for the block pool; an attempt that ends before
\* the store write leaves the store as it was, and one that ends with the
\* store's error has called reorganize once and nothing else on the store
\* after it, whatever the failed write left behind.
C26_PoolFrame ==
    \A a \in Attempts :
      Replied(a) =>
        /\ PoolFrame(a)
        /\ att[a].replies[1] \in EarlyCodes =>
             /\ chain = att[a].chain0
             /\ "reorganize" \notin Ops(att[a])
        /\ att[a].replies[1] = StoreFailed =>
             Cardinality(EventsOf(att[a], "reorganize")) = 1

\* C26 witness: an attempt ended with the store's error, the block pool is
\* as it was and the failed write has left the store changed.
C26_Witness ==
    \E a \in Attempts :
      /\ Replied(a)
      /\ att[a].replies = <<StoreFailed>>
      /\ pool = att[a].pool0
      /\ pool # {}
      /\ chain # att[a].chain0

====
